---- MODULE Spec2Model ----
(***************************************************************************)
(* Verification model of the example scripts of the gallery corpus: the    *)
(* cached grid search of plot_compare_reduction and its recorded [Memory]  *)
(* output, the score table it plots, the precision/recall narrative and    *)
(* iso-f1 curves of the Precision-Recall example, the cluster count of the  *)
(* DBSCAN demo, the structured Ward segmentation and the train/test split  *)
(* of the face completion example, and the published pages and notebooks   *)
(* themselves.  Each script or page has its own specification over its own *)
(* variables; the variables of the others stay idle.                       *)
(***************************************************************************)
EXTENDS Integers, Sequences, FiniteSets, TLC

VARIABLES
  pc, cand, fold, cache, log, best,          \* plot_compare_reduction, cached grid search
  scores, mean_scores,                       \* plot_compare_reduction, score table
  y_true, y_score, thresholds,               \* Precision-Recall narrative
  f_idx, x_idx, y,                           \* Precision-Recall, iso-f1 loop
  labels, n_clusters_,                       \* plot_dbscan
  label, ward_pc,                            \* plot_face_ward_segmentation
  targets, train, test, face_ids, faces_pc,  \* plot_multioutput_face_completion
  sil_idx, sil_out,                          \* plot_kmeans_silhouette_analysis
  nb_done, nb_cur, nb_head, nb_cells, nb_meta, \* the notebooks
  pg_done, pg_cur, pg_items                  \* the example pages

gridVars   == <<pc, cand, fold, cache, log, best>>
scoreVars  == <<scores, mean_scores>>
prVars     == <<y_true, y_score, thresholds>>
isoVars    == <<f_idx, x_idx, y>>
dbscanVars == <<labels, n_clusters_>>
wardVars   == <<label, ward_pc>>
facesVars  == <<targets, train, test, face_ids, faces_pc>>
scriptVars == <<gridVars, scoreVars, prVars, isoVars, dbscanVars, wardVars, facesVars>>
silVars    == <<sil_idx, sil_out>>
nbVars     == <<nb_done, nb_cur, nb_head, nb_cells, nb_meta>>
pgVars     == <<pg_done, pg_cur, pg_items>>
pageVars   == <<silVars, nbVars, pgVars>>
vars == <<scriptVars, pageVars>>

\* A script that is not running: its variables hold these values throughout.
IdleGrid   == pc = "idle" /\ cand = 0 /\ fold = 0 /\ cache = {} /\ log = <<>> /\ best = 0
IdleScores == scores = <<>> /\ mean_scores = <<>>
IdlePR     == y_true = <<>> /\ y_score = <<>> /\ thresholds = <<>>
IdleIso    == f_idx = 0 /\ x_idx = 0 /\ y = <<>>
IdleDbscan == labels = <<>> /\ n_clusters_ = <<>>
IdleWard   == label = <<>> /\ ward_pc = "idle"
IdleFaces  == targets = <<>> /\ train = <<>> /\ test = <<>> /\ face_ids = <<>> /\ faces_pc = "idle"
IdleScripts ==
  IdleGrid /\ IdleScores /\ IdlePR /\ IdleIso /\ IdleDbscan /\ IdleWard /\ IdleFaces

\* A page that is not being produced or read.
IdleSil    == sil_idx = 0 /\ sil_out = <<>>
IdleNb     == nb_done = {} /\ nb_cur = 0 /\ nb_head = <<>> /\ nb_cells = <<>> /\ nb_meta = <<>>
IdlePg     == pg_done = {} /\ pg_cur = 0 /\ pg_items = <<>>
IdlePages  == IdleSil /\ IdleNb /\ IdlePg

(***************************************************************************)
(* plot_compare_reduction: the parameter grid                              *)
(***************************************************************************)
N_FEATURES_OPTIONS == <<2, 4, 8>>
C_OPTIONS == <<1, 10, 100, 1000>>
reducer_labels == <<"PCA", "NMF", "KBest(chi2)">>
cv == 3

\* The reduce_dim lists of the two dicts of param_grid.
param_grid == << <<"PCA", "NMF">>, <<"SelectKBest">> >>

\* The candidates of one dict of param_grid, keys iterated in sorted order:
\* classify__C outermost, then reduce_dim, then reduce_dim__n_components / __k.
GridSize(reducers) == Len(C_OPTIONS) * Len(reducers) * Len(N_FEATURES_OPTIONS)

GridCandidate(g, reducers, i) ==
  LET nN == Len(N_FEATURES_OPTIONS)
      nR == Len(reducers)
  IN  [grid |-> g,
       C_idx |-> ((i - 1) \div (nR * nN)) + 1,
       reduce_dim |-> reducers[(((i - 1) \div nN) % nR) + 1],
       n |-> N_FEATURES_OPTIONS[((i - 1) % nN) + 1]]

\* All candidates of the first dict, then all of the second.
candidate_params ==
  [i \in 1..GridSize(param_grid[1]) |-> GridCandidate(1, param_grid[1], i)]
  \o [i \in 1..GridSize(param_grid[2]) |-> GridCandidate(2, param_grid[2], i)]

NCandidates == Len(candidate_params)

\* The [Memory] lines of the recorded output, in order: a computed fit shows
\* the transformer and its n_components / k, a cache load the entry it reads
\* (entries numbered by first appearance of their directory name).
Recorded ==
  << <<"Calling", "PCA", 2>>, <<"Calling", "PCA", 2>>, <<"Calling", "PCA", 2>>,
     <<"Calling", "PCA", 4>>, <<"Calling", "PCA", 4>>, <<"Calling", "PCA", 4>>,
     <<"Calling", "PCA", 8>>, <<"Calling", "PCA", 8>>, <<"Calling", "PCA", 8>>,
     <<"Calling", "NMF", 2>>, <<"Calling", "NMF", 2>>, <<"Calling", "NMF", 2>>,
     <<"Calling", "NMF", 4>>, <<"Calling", "NMF", 4>>, <<"Calling", "NMF", 4>>,
     <<"Calling", "NMF", 8>>, <<"Calling", "NMF", 8>>, <<"Calling", "NMF", 8>>,
     <<"Loading", 1>>, <<"Loading", 2>>, <<"Loading", 3>>,
     <<"Loading", 4>>, <<"Loading", 5>>, <<"Loading", 6>>,
     <<"Loading", 7>>, <<"Loading", 8>>, <<"Loading", 9>>,
     <<"Loading", 10>>, <<"Loading", 11>>, <<"Loading", 12>>,
     <<"Loading", 13>>, <<"Loading", 14>>, <<"Loading", 15>>,
     <<"Loading", 16>>, <<"Loading", 17>>, <<"Loading", 18>>,
     <<"Loading", 1>>, <<"Loading", 2>>, <<"Loading", 3>>,
     <<"Loading", 4>>, <<"Loading", 5>>, <<"Loading", 6>>,
     <<"Loading", 7>>, <<"Loading", 8>>, <<"Loading", 9>>,
     <<"Loading", 10>>, <<"Loading", 11>>, <<"Loading", 12>>,
     <<"Loading", 13>>, <<"Loading", 14>>, <<"Loading", 15>>,
     <<"Loading", 16>>, <<"Loading", 17>>, <<"Loading", 18>>,
     <<"Loading", 1>>, <<"Loading", 2>>, <<"Loading", 3>>,
     <<"Loading", 4>>, <<"Loading", 5>>, <<"Loading", 6>>,
     <<"Loading", 7>>, <<"Loading", 8>>, <<"Loading", 9>>,
     <<"Loading", 10>>, <<"Loading", 11>>, <<"Loading", 12>>,
     <<"Loading", 13>>, <<"Loading", 14>>, <<"Loading", 15>>,
     <<"Loading", 16>>, <<"Loading", 17>>, <<"Loading", 18>>,
     <<"Calling", "SelectKBest", 2>>, <<"Calling", "SelectKBest", 2>>, <<"Calling", "SelectKBest", 2>>,
     <<"Calling", "SelectKBest", 4>>, <<"Calling", "SelectKBest", 4>>, <<"Calling", "SelectKBest", 4>>,
     <<"Calling", "SelectKBest", 8>>, <<"Calling", "SelectKBest", 8>>, <<"Calling", "SelectKBest", 8>>,
     <<"Loading", 19>>, <<"Loading", 20>>, <<"Loading", 21>>,
     <<"Loading", 22>>, <<"Loading", 23>>, <<"Loading", 24>>,
     <<"Loading", 25>>, <<"Loading", 26>>, <<"Loading", 27>>,
     <<"Loading", 19>>, <<"Loading", 20>>, <<"Loading", 21>>,
     <<"Loading", 22>>, <<"Loading", 23>>, <<"Loading", 24>>,
     <<"Loading", 25>>, <<"Loading", 26>>, <<"Loading", 27>>,
     <<"Loading", 19>>, <<"Loading", 20>>, <<"Loading", 21>>,
     <<"Loading", 22>>, <<"Loading", 23>>, <<"Loading", 24>>,
     <<"Loading", 25>>, <<"Loading", 26>>, <<"Loading", 27>>,
     <<"Calling", "PCA", 8>> >>


(***************************************************************************)
(* plot_compare_reduction: GridSearchCV over the cached pipeline           *)
(***************************************************************************)
\* The training data handed to the transformer: the training part of CV
\* split f (1..cv), or all of digits.data (0) when the best candidate is refit.
FullData == 0

\* What Memory hashes for one _fit_transform_one call: the transformer with
\* its parameters and the data it is fitted on.  classify__C belongs to the
\* LinearSVC step and is no argument of the call.
CacheKeyWithC(c, f) == <<candidate_params[c].reduce_dim, candidate_params[c].n, f, candidate_params[c].C_idx>>

CacheKey(c, f) == <<candidate_params[c].reduce_dim, candidate_params[c].n, f>>

\* Memory serves a call from the cache directory when its key is stored.
CachedNever(k) == FALSE

Cached(k) == k \in cache

\* One [Memory] event: the kind of line printed, the arguments of the call,
\* and the candidate whose evaluation issued it.
Event(kind, c, f) ==
  [kind |-> kind,
   reduce_dim |-> candidate_params[c].reduce_dim,
   n |-> candidate_params[c].n,
   data |-> f,
   C_idx |-> candidate_params[c].C_idx,
   grid |-> candidate_params[c].grid]

InitGrid ==
  /\ pc = "cv" /\ cand = 1 /\ fold = 1 /\ cache = {} /\ log = <<>> /\ best = 0
  /\ IdleScores /\ IdlePR /\ IdleIso /\ IdleDbscan /\ IdleWard /\ IdleFaces /\ IdlePages

\* The loop of GridSearchCV.fit: candidates outermost, CV splits innermost.
NextFitSkipsLastSplit ==
  IF fold < cv - 1
    THEN cand' = cand /\ fold' = fold + 1 /\ pc' = "cv"
    ELSE IF cand < NCandidates
      THEN cand' = cand + 1 /\ fold' = 1 /\ pc' = "cv"
      ELSE cand' = cand /\ fold' = fold /\ pc' = "refit"

NextFit ==
  IF fold < cv
    THEN cand' = cand /\ fold' = fold + 1 /\ pc' = "cv"
    ELSE IF cand < NCandidates
      THEN cand' = cand + 1 /\ fold' = 1 /\ pc' = "cv"
      ELSE cand' = cand /\ fold' = fold /\ pc' = "refit"

\* cached_pipe.fit on a CV split, transformer not in the cache: it is fitted
\* and its result stored.
CallFitTransformOne ==
  /\ pc = "cv"
  /\ ~Cached(CacheKey(cand, fold))
  /\ cache' = cache \cup {CacheKey(cand, fold)}
  /\ log' = Append(log, Event("Calling", cand, fold))
  /\ NextFit
  /\ UNCHANGED <<best, scoreVars, prVars, isoVars, dbscanVars, wardVars, facesVars, pageVars>>

\* cached_pipe.fit on a CV split, transformer in the cache: it is loaded.
LoadFitTransformOne ==
  /\ pc = "cv"
  /\ Cached(CacheKey(cand, fold))
  /\ log' = Append(log, Event("Loading", cand, fold))
  /\ NextFit
  /\ UNCHANGED <<cache, best, scoreVars, prVars, isoVars, dbscanVars, wardVars, facesVars, pageVars>>

\* refit=True: the best candidate is fitted once more on the whole data set.
\* Which candidate scores best depends on the data and on LinearSVC.
Refit ==
  /\ pc = "refit"
  /\ \E b \in 1..NCandidates :
       /\ best' = b
       /\ IF Cached(CacheKey(b, FullData))
            THEN /\ log' = Append(log, Event("Loading", b, FullData))
                 /\ cache' = cache
            ELSE /\ log' = Append(log, Event("Calling", b, FullData))
                 /\ cache' = cache \cup {CacheKey(b, FullData)}
  /\ pc' = "rmtree"
  /\ UNCHANGED <<cand, fold, scoreVars, prVars, isoVars, dbscanVars, wardVars, facesVars, pageVars>>

\* rmtree(cachedir): the temporary cache is deleted and the script ends.
Rmtree ==
  /\ pc = "rmtree"
  /\ cache' = {}
  /\ pc' = "done"
  /\ UNCHANGED <<cand, fold, log, best, scoreVars, prVars, isoVars, dbscanVars, wardVars, facesVars, pageVars>>

NextGrid == CallFitTransformOne \/ LoadFitTransformOne \/ Refit \/ Rmtree

GridSpec == InitGrid /\ [][NextGrid]_vars

\* The script runs to its end: every step that can be taken is taken.
GridLiveSpec == GridSpec /\ WF_vars(NextGrid)

Calls(kind, P(_)) == Cardinality({i \in 1..Len(log) : log[i].kind = kind /\ P(log[i])})

InCV(e) == e.data # FullData

SameCall(e1, e2) ==
  e1.reduce_dim = e2.reduce_dim /\ e1.n = e2.n /\ e1.data = e2.data

C3_NeverFitsTwice ==
  /\ \A i, j \in 1..Len(log) :
       (i < j /\ log[i].kind = "Calling" /\ log[j].kind = "Calling")
         => ~SameCall(log[i], log[j])
  /\ \A i \in 1..Len(log) :
       log[i].kind = "Loading" =>
         \E j \in 1..(i - 1) : log[j].kind = "Calling" /\ SameCall(log[j], log[i])

\* The run is over, loads have happened, and the refit computed a transformer
\* whose class and parameters were already fitted on the CV splits.
C3_Witness ==
  /\ pc = "done"
  /\ log[Len(log)].kind = "Calling"
  /\ \E i \in 1..(Len(log) - 1) :
       /\ log[i].kind = "Loading"
       /\ log[i].reduce_dim = log[Len(log)].reduce_dim
       /\ log[i].n = log[Len(log)].n

\* The events printed so far agree with the recorded output: the same kind of
\* line at each position, the same transformer and n_components / k on each
\* computed fit, and two loads read the same cache entry exactly when they
\* are the same call.
MatchesRecorded ==
  /\ Len(log) <= Len(Recorded)
  /\ \A i \in 1..Len(log) :
       /\ log[i].kind = Recorded[i][1]
       /\ log[i].kind = "Calling" =>
            log[i].reduce_dim = Recorded[i][2] /\ log[i].n = Recorded[i][3]
  /\ \A i, j \in 1..Len(log) :
       (log[i].kind = "Loading" /\ log[j].kind = "Loading") =>
         ((Recorded[i][2] = Recorded[j][2]) <=> SameCall(log[i], log[j]))

InGrid(g, e) == InCV(e) /\ e.grid = g
InGrid1(e) == InGrid(1, e)
InGrid2(e) == InGrid(2, e)
AnyEvent(e) == TRUE

C4_Counts ==
  /\ pc = "refit" =>
       /\ Len(log) = 108
       /\ NCandidates = 36
       /\ GridSize(param_grid[1]) = 24 /\ GridSize(param_grid[2]) = 12
       /\ Calls("Calling", InGrid1) = 18 /\ Calls("Loading", InGrid1) = 54
       /\ Calls("Calling", InGrid2) = 9 /\ Calls("Loading", InGrid2) = 27
       /\ Calls("Calling", AnyEvent) = 27 /\ Calls("Loading", AnyEvent) = 81
  /\ pc \in {"rmtree", "done"} =>
       /\ Len(log) = 109
       /\ log[109].kind = "Calling" /\ ~InCV(log[109])
       /\ Calls("Calling", AnyEvent) = 28 /\ Calls("Loading", AnyEvent) = 81
  /\ pc \in {"cv", "refit"} => MatchesRecorded
  /\ (pc \in {"rmtree", "done"} /\ candidate_params[best].reduce_dim = "PCA"
        /\ candidate_params[best].n = 8) => MatchesRecorded /\ Len(log) = Len(Recorded)

\* C4: the recorded output is the trace of the script: 108 fit requests in
\* the CV loop (36 candidates x 3 splits), 27 computed (18 + 9) and 81 loaded
\* (54 + 27), then one more computed fit, 28 'Calling' and 81 'Loading' lines
\* in all, and the run ends.
C4_RecordedTrace == [](C4_Counts) /\ <>[](pc = "done")

\* The run has ended with exactly the recorded lines.
C4_Witness == pc = "done" /\ MatchesRecorded /\ Len(log) = Len(Recorded)

(***************************************************************************)
(* plot_compare_reduction: the table of scores that is plotted             *)
(***************************************************************************)
MaxScore == 2

SetMax(S) == CHOOSE m \in S : \A v \in S : v <= m

\* cv_results_['mean_test_score']: one score per candidate, in the order of
\* candidate_params.  The scores depend on the data; here at most two
\* candidates score above the rest.
ScoreVectors ==
  { [i \in 1..NCandidates |-> IF i = a THEN va ELSE IF i = b THEN vb ELSE 0] :
      a \in 1..NCandidates, b \in 1..NCandidates, va \in 1..MaxScore, vb \in 1..MaxScore }

\* flat.reshape(d0, -1, d2): row-major, the middle dimension inferred.
Reshape(flat, d0, d2) ==
  LET d1 == Len(flat) \div (d0 * d2)
  IN  [a \in 1..d0 |-> [r \in 1..d1 |-> [n \in 1..d2 |->
        flat[(a - 1) * d1 * d2 + (r - 1) * d2 + n]]]]

\* arr.max(axis=0)
MaxAxis0(arr) ==
  [r \in 1..Len(arr[1]) |-> [n \in 1..Len(arr[1][1]) |->
    SetMax({arr[a][r][n] : a \in 1..Len(arr)})]]

InitScores ==
  /\ scores \in ScoreVectors
  /\ mean_scores = <<>>
  /\ IdleGrid /\ IdlePR /\ IdleIso /\ IdleDbscan /\ IdleWard /\ IdleFaces /\ IdlePages

\* mean_scores = mean_scores.reshape(len(C_OPTIONS), -1, len(N_FEATURES_OPTIONS))
\* mean_scores = mean_scores.max(axis=0)
ReshapeAndMax ==
  /\ mean_scores = <<>>
  /\ mean_scores' = MaxAxis0(Reshape(scores, Len(C_OPTIONS), Len(N_FEATURES_OPTIONS)))
  /\ UNCHANGED <<scores, gridVars, prVars, isoVars, dbscanVars, wardVars, facesVars, pageVars>>

NextScores == ReshapeAndMax

ScoreSpec == InitScores /\ [][NextScores]_vars

\* The transformer class a bar label stands for.
ReducerOfLabel(lbl) ==
  CASE lbl = "PCA" -> "PCA"
    [] lbl = "NMF" -> "NMF"
    [] lbl = "KBest(chi2)" -> "SelectKBest"

\* The best score over C_OPTIONS of one reducer with one number of features.
BestOverC(reducer, n) ==
  SetMax({scores[i] : i \in {j \in 1..NCandidates :
            candidate_params[j].reduce_dim = reducer /\ candidate_params[j].n = n}})

\* C2: after the reshape and max(axis=0), row r / column n of mean_scores is
\* the maximum over C_OPTIONS of the mean test score of reducer_labels[r] with
\* N_FEATURES_OPTIONS[n] features.
C2_RowIsReducer ==
  mean_scores # <<>> =>
    \A r \in 1..Len(reducer_labels), n \in 1..Len(N_FEATURES_OPTIONS) :
      mean_scores[r][n] = BestOverC(ReducerOfLabel(reducer_labels[r]), N_FEATURES_OPTIONS[n])

(***************************************************************************)
(* Precision-Recall: precision, recall and the classifier threshold        *)
(***************************************************************************)
NSamples == 3
NLevels == 3

\* Fractions <<numerator, denominator>> with a positive denominator.
RLeq(a, b) == a[1] * b[2] <= b[1] * a[2]
RLt(a, b) == a[1] * b[2] < b[1] * a[2]
REq(a, b) == a[1] * b[2] = b[1] * a[2]

Samples == 1..NSamples

\* A sample is returned (predicted positive) when its score reaches the
\* threshold t.
Returned(t) == {i \in Samples : y_score[i] >= t}

Tp(t) == Cardinality({i \in Returned(t) : y_true[i] = 1})
Fp(t) == Cardinality({i \in Returned(t) : y_true[i] = 0})

FnCountsThreshold(t) == Cardinality({i \in Samples : y_true[i] = 1 /\ y_score[i] <= t})

Fn(t) == Cardinality({i \in Samples \ Returned(t) : y_true[i] = 1})

\* P = Tp / (Tp + Fp)
PrecisionOverAll(t) == <<Tp(t), NSamples>>

Precision(t) == <<Tp(t), Tp(t) + Fp(t)>>

\* R = Tp / (Tp + Fn)
Recall(t) == <<Tp(t), Tp(t) + Fn(t)>>

\* A fixed set of scored samples with binary labels; the threshold starts
\* above every score, so that nothing is returned.
InitPR ==
  /\ y_true \in [Samples -> {0, 1}]
  /\ y_score \in [Samples -> 1..NLevels]
  /\ thresholds = <<NLevels + 1>>
  /\ IdleGrid /\ IdleScores /\ IdleIso /\ IdleDbscan /\ IdleWard /\ IdleFaces /\ IdlePages

\* Lowering the threshold of the classifier.
LowerThreshold ==
  /\ \E t \in 1..NLevels :
       /\ t < thresholds[Len(thresholds)]
       /\ thresholds' = Append(thresholds, t)
  /\ UNCHANGED <<y_true, y_score, gridVars, scoreVars, isoVars, dbscanVars, wardVars, facesVars, pageVars>>

NextPR == LowerThreshold

PRSpec == InitPR /\ [][NextPR]_vars

\* The lowerings made so far: k is the threshold before, k + 1 the one after.
Lowerings == 1..(Len(thresholds) - 1)
Before(k) == thresholds[k]
After(k) == thresholds[k + 1]

\* C5: Tp + Fn does not depend on the threshold, and lowering the threshold
\* never decreases recall.
C5_RecallMonotone ==
  \A k \in Lowerings :
    /\ Tp(After(k)) + Fn(After(k)) = Tp(Before(k)) + Fn(Before(k))
    /\ Tp(Before(k)) + Fn(Before(k)) > 0 => RLeq(Recall(Before(k)), Recall(After(k)))

\* One lowering raised recall and another left it unchanged.
C5_Witness ==
  /\ \E k \in Lowerings :
       Tp(Before(k)) + Fn(Before(k)) > 0 /\ RLt(Recall(Before(k)), Recall(After(k)))
  /\ \E k \in Lowerings :
       Tp(Before(k)) + Fn(Before(k)) > 0 /\ REq(Recall(Before(k)), Recall(After(k)))

OnlyTruePositivesAdmitted(k) ==
  Fp(After(k)) = Fp(Before(k)) /\ Tp(After(k)) > Tp(Before(k))

OnlyFalsePositivesAdmitted(k) ==
  Tp(After(k)) = Tp(Before(k)) /\ Fp(After(k)) > Fp(Before(k))

PrecisionDefined(t) == Tp(t) + Fp(t) > 0

\* C6: a lowering that admits only true positives does not decrease precision
\* (and raises it when it was below 1); a lowering that admits only false
\* positives, with Tp > 0, strictly decreases it.
C6_PrecisionNotMonotone ==
  \A k \in Lowerings :
    /\ (OnlyTruePositivesAdmitted(k) /\ PrecisionDefined(Before(k))) =>
         /\ RLeq(Precision(Before(k)), Precision(After(k)))
         /\ RLt(Precision(Before(k)), <<1, 1>>) =>
              RLt(Precision(Before(k)), Precision(After(k)))
    /\ (OnlyFalsePositivesAdmitted(k) /\ Tp(Before(k)) > 0) =>
         RLt(Precision(After(k)), Precision(Before(k)))

\* Both cases have happened for the same samples: precision went up on a
\* lowering that admitted only true positives and down on one that admitted
\* only false positives, the latter with recall unchanged.
C6_Witness ==
  /\ \E k \in Lowerings :
       /\ OnlyTruePositivesAdmitted(k) /\ PrecisionDefined(Before(k))
       /\ RLt(Precision(Before(k)), Precision(After(k)))
  /\ \E k \in Lowerings :
       /\ OnlyFalsePositivesAdmitted(k) /\ Tp(Before(k)) > 0
       /\ RLt(Precision(After(k)), Precision(Before(k)))
       /\ REq(Recall(Before(k)), Recall(After(k)))

(***************************************************************************)
(* Precision-Recall: the iso-f1 curves                                     *)
(***************************************************************************)
Abs(a) == IF a < 0 THEN -a ELSE a

RECURSIVE Gcd(_, _)
Gcd(a, b) == IF b = 0 THEN a ELSE Gcd(b, a % b)

\* Exact arithmetic on fractions, kept in lowest terms with a positive
\* denominator; factors are cancelled before multiplying.
RNorm(n, d) ==
  LET g == Gcd(Abs(n), Abs(d))
      sgn == IF d < 0 THEN -1 ELSE 1
  IN  <<sgn * (n \div g), sgn * (d \div g)>>

RInv(a) == IF a[1] < 0 THEN <<-a[2], -a[1]>> ELSE <<a[2], a[1]>>

RAdd(a, b) ==
  LET g == Gcd(a[2], b[2])
  IN  RNorm(a[1] * (b[2] \div g) + b[1] * (a[2] \div g), (a[2] \div g) * b[2])

RSub(a, b) == RAdd(a, <<-b[1], b[2]>>)

RMul(a, b) ==
  LET g1 == Gcd(Abs(a[1]), b[2])
      g2 == Gcd(Abs(b[1]), a[2])
  IN  RNorm((a[1] \div g1) * (b[1] \div g2), (a[2] \div g2) * (b[2] \div g1))

RDiv(a, b) == RMul(a, RInv(b))

RInt(n) == <<n, 1>>

\* np.linspace(start, stop, num)[i], i counted from 0
Linspace(start, stop, num, i) ==
  RAdd(start, RDiv(RMul(RInt(i), RSub(stop, start)), RInt(num - 1)))

NFScores == 4
NPoints == 50
AnnotatedIndex == 45

\* f_scores = np.linspace(0.2, 0.8, num=4)
f_scores == [j \in 1..NFScores |-> Linspace(<<2, 10>>, <<8, 10>>, NFScores, j - 1)]

\* x = np.linspace(0.01, 1)
x == [i \in 1..NPoints |-> Linspace(<<1, 100>>, <<1, 1>>, NPoints, i - 1)]

IsoDenominator(f_score, xv) == RSub(RMul(RInt(2), xv), f_score)

\* y = f_score * x / (2 * x - f_score), one element; a zero denominator
\* gives no number.
IsoF1YHalfDenominator(f_score, xv) ==
  IF RSub(xv, f_score)[1] = 0
    THEN "undefined"
    ELSE RDiv(RMul(f_score, xv), RSub(xv, f_score))

IsoF1Y(f_score, xv) ==
  IF IsoDenominator(f_score, xv)[1] = 0
    THEN "undefined"
    ELSE RDiv(RMul(f_score, xv), IsoDenominator(f_score, xv))

\* F1 = 2 * P * R / (P + R)
F1(P, R) == RDiv(RMul(RMul(RInt(2), P), R), RAdd(P, R))

InitIso ==
  /\ f_idx = 1 /\ x_idx = 0 /\ y = <<>>
  /\ IdleGrid /\ IdleScores /\ IdlePR /\ IdleDbscan /\ IdleWard /\ IdleFaces /\ IdlePages

\* One element of the array expression of the loop body.
ComputePoint ==
  /\ f_idx <= NFScores
  /\ x_idx < NPoints
  /\ y' = Append(y, IsoF1Y(f_scores[f_idx], x[x_idx + 1]))
  /\ x_idx' = x_idx + 1
  /\ UNCHANGED <<f_idx, gridVars, scoreVars, prVars, dbscanVars, wardVars, facesVars, pageVars>>

\* plt.plot(x[y >= 0], y[y >= 0]); plt.annotate(..., xy=(0.9, y[45] + 0.02));
\* then the next f_score.
PlotIsoCurve ==
  /\ f_idx <= NFScores
  /\ x_idx = NPoints
  /\ AnnotatedIndex + 1 \in DOMAIN y
  /\ f_idx' = f_idx + 1
  /\ x_idx' = 0
  /\ y' = <<>>
  /\ UNCHANGED <<gridVars, scoreVars, prVars, dbscanVars, wardVars, facesVars, pageVars>>

NextIso == ComputePoint \/ PlotIsoCurve

IsoSpec == InitIso /\ [][NextIso]_vars

\* The indices of the points that are drawn: those with y >= 0.
Drawn == {i \in 1..Len(y) : y[i] # "undefined" /\ y[i][1] >= 0}

\* C7: every drawn point (x, y) of an iso-f1 curve has F1 = 2xy / (x + y)
\* equal to f_score; the denominator 2x - f_score is never zero for the four
\* f_score values and the 50 x values; index 45 is within the array.
C7_IsoF1 ==
  /\ \A i \in Drawn : F1(x[i], y[i]) = f_scores[f_idx]
  /\ \A i \in 1..Len(y) : y[i] # "undefined"
  /\ \A j \in 1..NFScores, i \in 1..NPoints : IsoDenominator(f_scores[j], x[i])[1] # 0
  /\ f_scores = << <<1, 5>>, <<2, 5>>, <<3, 5>>, <<4, 5>> >>
  /\ Len(x) = 50
  /\ x_idx = NPoints => (AnnotatedIndex + 1 \in DOMAIN y /\ Len(y) = Len(x))

\* The last curve is complete, some of its points are drawn and some are
\* dropped for y < 0.
C7_Witness ==
  /\ f_idx = NFScores /\ x_idx = NPoints
  /\ Drawn # {} /\ Drawn # 1..Len(y)
  /\ AnnotatedIndex + 1 \in Drawn

(***************************************************************************)
(* plot_dbscan: the estimated number of clusters                           *)
(***************************************************************************)
NLabelled == 4
MaxLabel == 2
Noise == -1

\* set(labels)
LabelSet(ls) == {ls[i] : i \in DOMAIN ls}

\* len(set(labels)) - (1 if -1 in labels else 0)
NClustersAlwaysMinusOne(ls) == Cardinality(LabelSet(ls)) - 1

NClusters(ls) ==
  Cardinality(LabelSet(ls)) - (IF \E i \in DOMAIN ls : ls[i] = Noise THEN 1 ELSE 0)

\* db.labels_: a cluster label, or -1 for noise, for each sample; n_clusters_
\* is empty until it is computed.
InitDbscan ==
  /\ labels \in [1..NLabelled -> Noise..MaxLabel]
  /\ n_clusters_ = <<>>
  /\ IdleGrid /\ IdleScores /\ IdlePR /\ IdleIso /\ IdleWard /\ IdleFaces /\ IdlePages

ComputeNClusters ==
  /\ n_clusters_ = <<>>
  /\ n_clusters_' = <<NClusters(labels)>>
  /\ UNCHANGED <<labels, gridVars, scoreVars, prVars, isoVars, wardVars, facesVars, pageVars>>

NextDbscan == ComputeNClusters

DbscanSpec == InitDbscan /\ [][NextDbscan]_vars

\* The cluster labels that some sample carries.
ClustersPresent == {l \in 0..MaxLabel : \E i \in DOMAIN labels : labels[i] = l}

\* C8: n_clusters_ is the number of distinct labels other than the noise
\* label -1: 0 when every sample is noise, the plain number of distinct
\* labels when no sample is noise.
C8_NClusters ==
  n_clusters_ # <<>> =>
    /\ n_clusters_[1] = Cardinality(ClustersPresent)
    /\ (\A i \in DOMAIN labels : labels[i] = Noise) => n_clusters_[1] = 0
    /\ (\A i \in DOMAIN labels : labels[i] # Noise) =>
         n_clusters_[1] = Cardinality(LabelSet(labels))

\* Computed for samples that are all in clusters, none of them noise.
C8_Witness ==
  /\ n_clusters_ # <<>>
  /\ \A i \in DOMAIN labels : labels[i] # Noise
  /\ Cardinality(LabelSet(labels)) >= 2

(***************************************************************************)
(* plot_face_ward_segmentation: structured Ward clustering of an image     *)
(***************************************************************************)
ImageCols == 9
n_clusters == 15

\* face.shape: a small image of two rows.
face_shape == <<2, ImageCols>>

\* X = np.reshape(face, (-1, 1)): one sample per pixel, row by row.
Pixels == 1..(face_shape[1] * face_shape[2])
RowOf(p) == (p - 1) \div face_shape[2]
ColOf(p) == (p - 1) % face_shape[2]

\* grid_to_graph(*face.shape): a pixel is joined to the pixels next to it in
\* its row and in its column.
Adjacent(p, q) ==
  \/ RowOf(p) = RowOf(q) /\ Abs(ColOf(p) - ColOf(q)) = 1
  \/ ColOf(p) = ColOf(q) /\ Abs(RowOf(p) - RowOf(q)) = 1

\* The connectivity argument of AgglomerativeClustering.
Unstructured(p, q) == p # q

connectivity(p, q) == Adjacent(p, q)

\* The pixels that carry label c.
Region(lbl, c) == {q \in DOMAIN lbl : lbl[q] = c}

ClusterIds(lbl) == {lbl[p] : p \in DOMAIN lbl}

\* ward.fit(X) begins with every pixel in a cluster of its own, named by the
\* pixel.
InitWard ==
  /\ label = [p \in Pixels |-> p]
  /\ ward_pc = "merging"
  /\ IdleGrid /\ IdleScores /\ IdlePR /\ IdleIso /\ IdleDbscan /\ IdleFaces /\ IdlePages

\* One merge of the agglomeration: two clusters may be merged when the
\* connectivity joins a pixel of one to a pixel of the other.  Which such pair
\* has the least increase of variance depends on the pixel values; any pair
\* may be it.  The merged cluster keeps the smaller name.
Merge ==
  /\ ward_pc = "merging"
  /\ Cardinality(ClusterIds(label)) > n_clusters
  /\ \E p \in Pixels, q \in Pixels :
       /\ label[p] < label[q]
       /\ connectivity(p, q)
       /\ label' = [r \in Pixels |-> IF label[r] = label[q] THEN label[p] ELSE label[r]]
  /\ UNCHANGED <<ward_pc, gridVars, scoreVars, prVars, isoVars, dbscanVars, facesVars, pageVars>>

\* label = np.reshape(ward.labels_, face.shape): the n_clusters clusters that
\* remain are numbered from 0.
AssignLabels ==
  /\ ward_pc = "merging"
  /\ Cardinality(ClusterIds(label)) <= n_clusters
  /\ label' = [p \in Pixels |->
                 Cardinality({c \in ClusterIds(label) : c < label[p]})]
  /\ ward_pc' = "done"
  /\ UNCHANGED <<gridVars, scoreVars, prVars, isoVars, dbscanVars, facesVars, pageVars>>

NextWard == Merge \/ AssignLabels

WardSpec == InitWard /\ [][NextWard]_vars

\* The pixels reached from the set S by steps between adjacent pixels of R.
RECURSIVE ReachWithin(_, _)
ReachWithin(S, R) ==
  LET T == S \cup {q \in R : \E p \in S : Adjacent(p, q)}
  IN  IF T = S THEN S ELSE ReachWithin(T, R)

\* A region is in one piece.
InOnePiece(R) == Cardinality(R) = 1 \/ ReachWithin({CHOOSE p \in R : TRUE}, R) = R

\* C9: every pixel has exactly one label, the finished segmentation has
\* n_clusters = 15 labels and the shape of the image, and after any sequence
\* of merges every region is in one piece in the pixel-neighbour graph.
C9_RegionsInOnePiece ==
  /\ DOMAIN label = Pixels
  /\ \A c \in ClusterIds(label) : InOnePiece(Region(label, c))
  /\ ward_pc = "done" =>
       /\ Cardinality(ClusterIds(label)) = 15
       /\ ClusterIds(label) = 0..(n_clusters - 1)

\* The segmentation is finished and has a region of three or more pixels.
C9_Witness ==
  /\ ward_pc = "done"
  /\ \E c \in ClusterIds(label) : Cardinality(Region(label, c)) >= 3

(***************************************************************************)
(* plot_multioutput_face_completion: train / test split and face_ids       *)
(***************************************************************************)
NImages == 3
FirstTestPerson == 30
n_faces == 5

\* data.target around the person that begins the test set.
TargetValues == (FirstTestPerson - 1)..(FirstTestPerson + 1)

\* The boolean masks targets < 30 and targets >= 30.
InTestAfter30(t) == t > FirstTestPerson

InTrain(t) == t < FirstTestPerson
InTest(t) == t >= FirstTestPerson

\* data[mask]: the rows (named by their index in data) where the mask holds,
\* in their order in data.
RECURSIVE Rows(_, _)
Rows(mask, n) ==
  IF n = 0 THEN <<>>
  ELSE IF mask[n] THEN Append(Rows(mask, n - 1), n) ELSE Rows(mask, n - 1)

Range(sq) == {sq[i] : i \in DOMAIN sq}

\* data = fetch_olivetti_faces(); targets = data.target
InitFaces ==
  /\ targets \in [1..NImages -> TargetValues]
  /\ train = <<>> /\ test = <<>> /\ face_ids = <<>>
  /\ faces_pc = "loaded"
  /\ IdleGrid /\ IdleScores /\ IdlePR /\ IdleIso /\ IdleDbscan /\ IdleWard /\ IdlePages

\* train = data[targets < 30]; test = data[targets >= 30]
Split ==
  /\ faces_pc = "loaded"
  /\ train' = Rows([i \in 1..NImages |-> InTrain(targets[i])], NImages)
  /\ test' = Rows([i \in 1..NImages |-> InTest(targets[i])], NImages)
  /\ faces_pc' = "split"
  /\ UNCHANGED <<targets, face_ids, gridVars, scoreVars, prVars, isoVars, dbscanVars, wardVars, pageVars>>

\* face_ids = rng.randint(test.shape[0], size=(n_faces, )): n_faces row
\* numbers below test.shape[0], repetitions allowed.
DrawFaceIds ==
  /\ faces_pc = "split"
  /\ Len(test) > 0
  /\ face_ids' \in [1..n_faces -> 0..(Len(test) - 1)]
  /\ faces_pc' = "drawn"
  /\ UNCHANGED <<targets, train, test, gridVars, scoreVars, prVars, isoVars, dbscanVars, wardVars, pageVars>>

\* With an empty test set randint has no number to draw and the script stops.
RandintFails ==
  /\ faces_pc = "split"
  /\ Len(test) = 0
  /\ faces_pc' = "error"
  /\ UNCHANGED <<targets, train, test, face_ids, gridVars, scoreVars, prVars, isoVars, dbscanVars, wardVars, pageVars>>

\* test = test[face_ids, :]
SelectFaces ==
  /\ faces_pc = "drawn"
  /\ test' = [k \in 1..n_faces |-> test[face_ids[k] + 1]]
  /\ faces_pc' = "selected"
  /\ UNCHANGED <<targets, train, face_ids, gridVars, scoreVars, prVars, isoVars, dbscanVars, wardVars, pageVars>>

NextFaces == Split \/ DrawFaceIds \/ RandintFails \/ SelectFaces

FacesSpec == InitFaces /\ [][NextFaces]_vars

\* The images of the people of the test set, whatever the code selected.
TestPeopleImages == {i \in 1..NImages : targets[i] >= 30}

People(sq) == {targets[sq[i]] : i \in DOMAIN sq}

\* C10: the split puts every image in exactly one of train and test, no
\* person has images in both, and after test = test[face_ids, :] the test
\* set has exactly n_faces rows, each a row of the test set of the split.
C10_IndependentPeople ==
  /\ faces_pc \in {"split", "drawn", "error"} =>
       /\ Range(train) \cup Range(test) = 1..NImages
       /\ Range(train) \cap Range(test) = {}
       /\ Len(train) + Len(test) = NImages
       /\ Range(test) = TestPeopleImages
  /\ faces_pc \in {"split", "drawn", "error", "selected"} =>
       People(train) \cap People(test) = {}
  /\ faces_pc = "selected" =>
       /\ Len(test) = n_faces
       /\ Range(test) \subseteq TestPeopleImages
       /\ Range(train) \cap Range(test) = {}

\* Faces have been selected from a test set of two or more images, with
\* people on both sides of the split.
C10_Witness ==
  /\ faces_pc = "selected"
  /\ train # <<>>
  /\ Cardinality(Range(test)) >= 2
  /\ \E i \in 1..NImages : targets[i] = FirstTestPerson

(***************************************************************************)
(* plot_kmeans_silhouette_analysis: the script output of the page          *)
(***************************************************************************)
\* A printed score 0.dddddddddddd is kept exactly as <<m, r>>, standing for
\* (m * 10^6 + r) * 10^-12 with 0 <= r < 10^6.
DLt(a, b) == a[1] < b[1] \/ (a[1] = b[1] /\ a[2] < b[2])
DLeq(a, b) == a = b \/ DLt(a, b)

\* "This measure has a range of [-1, 1]."
SilhouetteMin == <<-1000000, 0>>
SilhouetteMax == <<1000000, 0>>
InSilhouetteRange(v) == DLeq(SilhouetteMin, v) /\ DLeq(v, SilhouetteMax)

\* The lines under "Script output".
RecordedSilhouette ==
  << [n_clusters |-> 2, score |-> <<704978, 749608>>],
     [n_clusters |-> 3, score |-> <<588200, 401213>>],
     [n_clusters |-> 4, score |-> <<650518, 663273>>],
     [n_clusters |-> 5, score |-> <<563764, 690262>>],
     [n_clusters |-> 6, score |-> <<450301, 208266>>] >>

\* The values of n_clusters the script tries, one after the other.
RangeStopsBeforeSix == <<2, 3, 4, 5>>

range_n_clusters == <<2, 3, 4, 5, 6>>

\* What the average silhouette of a clustering may come to: it depends on the
\* data and on KMeans; the recorded values and the ends and middle of the
\* range stand for the possibilities.
SilhouetteValues ==
  {RecordedSilhouette[i].score : i \in DOMAIN RecordedSilhouette}
    \cup {SilhouetteMin, <<0, 0>>, SilhouetteMax}

InitSil ==
  /\ sil_idx = 1 /\ sil_out = <<>>
  /\ IdleScripts /\ IdleNb /\ IdlePg

\* print("For n_clusters =", n_clusters,
\*       "The average silhouette_score is :", silhouette_avg)
PrintSilhouette ==
  /\ sil_idx \in DOMAIN range_n_clusters
  /\ \E v \in SilhouetteValues :
       sil_out' = Append(sil_out, [n_clusters |-> range_n_clusters[sil_idx], score |-> v])
  /\ sil_idx' = sil_idx + 1
  /\ UNCHANGED <<scriptVars, nbVars, pgVars>>

NextSil == PrintSilhouette

SilSpec == InitSil /\ [][NextSil]_vars

SilDone == sil_idx > Len(range_n_clusters)

\* One line for each n_clusters in 2..6, in ascending order, every score in
\* [-1, 1].
OneLinePerNClusters(out) ==
  /\ Len(out) = 5
  /\ \A i \in 1..5 : out[i].n_clusters = i + 1
  /\ \A i \in 1..5 : InSilhouetteRange(out[i].score)

ScoreFor(out, n) == out[CHOOSE i \in DOMAIN out : out[i].n_clusters = n].score

\* The scores for 3, 5 and 6 clusters are below those for 2 and for 4.
ThreeFiveSixBelowTwoFour(out) ==
  \A bad \in {3, 5, 6}, good \in {2, 4} : DLt(ScoreFor(out, bad), ScoreFor(out, good))

\* C11: the recorded script output has exactly one average silhouette score
\* for each n_clusters in 2, 3, 4, 5, 6, in ascending order; every score is in
\* [-1, 1]; the scores for 3, 5 and 6 are below those for 2 and for 4.  It is
\* laid out as every finished run of the script lays its output out.
C11_SilhouetteOutput ==
  /\ \A i \in DOMAIN sil_out :
       sil_out[i].n_clusters = i + 1 /\ InSilhouetteRange(sil_out[i].score)
  /\ SilDone => OneLinePerNClusters(sil_out)
  /\ OneLinePerNClusters(RecordedSilhouette)
  /\ sil_out = RecordedSilhouette => ThreeFiveSixBelowTwoFour(sil_out)

\* The script has finished and has printed the recorded lines.
C11_Witness == SilDone /\ sil_out = RecordedSilhouette

(***************************************************************************)
(* The notebooks: every notebook document of the corpus, as parsed.  null  *)
(* is written <<>>, a JSON object with keys k as the set of its <<k, v>>    *)
(* pairs, and the text of a cell other than the inline magic by the line   *)
(* it stands on.  brackets gives, line by line, the brackets and braces    *)
(* opened less those closed outside of strings.                            *)
(***************************************************************************)
\* src/0.18/_downloads/plot_dbscan.ipynb, lines 1-108
Notebook1 ==
  [file |-> "src/0.18/_downloads/plot_dbscan.ipynb", first_line |-> 1, last_line |-> 108,
   nbformat |-> 4, nbformat_minor |-> 0,
   cells |->
     << [cell_type |-> "code", execution_count |-> <<>>, outputs |-> <<>>, metadata |-> {<<"collapsed", FALSE>>}, source |-> <<"%matplotlib inline">>],
        [cell_type |-> "markdown", metadata |-> {}, source |-> <<"text at line 18">>],
        [cell_type |-> "code", execution_count |-> <<>>, outputs |-> <<>>, metadata |-> {<<"collapsed", FALSE>>}, source |-> <<"text at line 27">>],
        [cell_type |-> "markdown", metadata |-> {}, source |-> <<"text at line 36">>],
        [cell_type |-> "code", execution_count |-> <<>>, outputs |-> <<>>, metadata |-> {<<"collapsed", FALSE>>}, source |-> <<"text at line 45">>],
        [cell_type |-> "markdown", metadata |-> {}, source |-> <<"text at line 54">>],
        [cell_type |-> "code", execution_count |-> <<>>, outputs |-> <<>>, metadata |-> {<<"collapsed", FALSE>>}, source |-> <<"text at line 63">>],
        [cell_type |-> "markdown", metadata |-> {}, source |-> <<"text at line 72">>],
        [cell_type |-> "code", execution_count |-> <<>>, outputs |-> <<>>, metadata |-> {<<"collapsed", FALSE>>}, source |-> <<"text at line 81">>] >>,
   kernelspec |-> [display_name |-> "Python 2", name |-> "python2", language |-> "python"],
   language_info |-> [name |-> "python", version |-> "2.7.13", pygments_lexer |-> "ipython2",
                      codemirror_mode |-> [name |-> "ipython", version |-> 2]],
   brackets |->
     << 1, 0, 0, 1, 1, 0, 0, 1, 0, -1, 0, 1, 0, -1, -1, 1, 1, 0, -1, 0, 0, -1, 1, 0, 0, 1, 0, -1, 0, 1,
        0, -1, -1, 1, 1, 0, -1, 0, 0, -1, 1, 0, 0, 1, 0, -1, 0, 1, 0, -1, -1, 1, 1, 0, -1, 0, 0, -1, 1, 0,
        0, 1, 0, -1, 0, 1, 0, -1, -1, 1, 1, 0, -1, 0, 0, -1, 1, 0, 0, 1, 0, -1, 0, 1, 0, -1, -1, -1, 1, 1,
        0, 0, 0, -1, 1, 0, 0, 0, 0, 0, 0, 1, 0, 0, -1, -1, -1, -1 >>]

\* src/0.18/_downloads/plot_multioutput_face_completion.ipynb, lines 1-54
Notebook2 ==
  [file |-> "src/0.18/_downloads/plot_multioutput_face_completion.ipynb", first_line |-> 1, last_line |-> 54,
   nbformat |-> 4, nbformat_minor |-> 0,
   cells |->
     << [cell_type |-> "code", execution_count |-> <<>>, outputs |-> <<>>, metadata |-> {<<"collapsed", FALSE>>}, source |-> <<"%matplotlib inline">>],
        [cell_type |-> "markdown", metadata |-> {}, source |-> <<"text at line 18">>],
        [cell_type |-> "code", execution_count |-> <<>>, outputs |-> <<>>, metadata |-> {<<"collapsed", FALSE>>}, source |-> <<"text at line 27">>] >>,
   kernelspec |-> [display_name |-> "Python 2", name |-> "python2", language |-> "python"],
   language_info |-> [name |-> "python", version |-> "2.7.13", pygments_lexer |-> "ipython2",
                      codemirror_mode |-> [name |-> "ipython", version |-> 2]],
   brackets |->
     << 1, 0, 0, 1, 1, 0, 0, 1, 0, -1, 0, 1, 0, -1, -1, 1, 1, 0, -1, 0, 0, -1, 1, 0, 0, 1, 0, -1, 0, 1,
        0, -1, -1, -1, 1, 1, 0, 0, 0, -1, 1, 0, 0, 0, 0, 0, 0, 1, 0, 0, -1, -1, -1, -1 >>]

\* src/0.18/_downloads/plot_multioutput_face_completion.ipynb, lines 622-686
Notebook3 ==
  [file |-> "src/0.18/_downloads/plot_multioutput_face_completion.ipynb", first_line |-> 622, last_line |-> 686,
   nbformat |-> 4, nbformat_minor |-> 0,
   cells |->
     << [cell_type |-> "code", execution_count |-> <<>>, outputs |-> <<>>, metadata |-> {<<"collapsed", FALSE>>}, source |-> <<"%matplotlib inline">>],
        [cell_type |-> "markdown", metadata |-> {}, source |-> <<"text at line 639">>],
        [cell_type |-> "code", execution_count |-> <<>>, outputs |-> <<>>, metadata |-> {<<"collapsed", FALSE>>}, source |-> <<"text at line 650">>],
        [cell_type |-> "code", execution_count |-> <<>>, outputs |-> <<>>, metadata |-> {<<"collapsed", FALSE>>}, source |-> <<"text at line 661">>] >>,
   kernelspec |-> [display_name |-> "Python 3", name |-> "python3", language |-> "python"],
   language_info |-> [name |-> "python", version |-> "3.6.1", pygments_lexer |-> "ipython3",
                      codemirror_mode |-> [name |-> "ipython", version |-> 3]],
   brackets |->
     << 1, 1, 1, 0, 0, 1, 0, -1, 0, 1, 0, -1, -1, 1, 0, 0, 1, 0, -1, -1, 1, 0, 0, 1, 0, -1, 0, 1, 0, -1,
        -1, 1, 0, 0, 1, 0, -1, 0, 1, 0, -1, -1, -1, 1, 1, 0, 0, 0, -1, 1, 1, 0, 0, -1, 0, 0, 0, 0, 0, 0,
        -1, -1, 0, 0, -1 >>]

\* src/dev/_downloads/plot_face_ward_segmentation.ipynb, lines 1-126
Notebook4 ==
  [file |-> "src/dev/_downloads/plot_face_ward_segmentation.ipynb", first_line |-> 1, last_line |-> 126,
   nbformat |-> 4, nbformat_minor |-> 0,
   cells |->
     << [cell_type |-> "code", execution_count |-> <<>>, outputs |-> <<>>, metadata |-> {<<"collapsed", FALSE>>}, source |-> <<"%matplotlib inline">>],
        [cell_type |-> "markdown", metadata |-> {}, source |-> <<"text at line 18">>],
        [cell_type |-> "code", execution_count |-> <<>>, outputs |-> <<>>, metadata |-> {<<"collapsed", FALSE>>}, source |-> <<"text at line 29">>],
        [cell_type |-> "markdown", metadata |-> {}, source |-> <<"text at line 36">>],
        [cell_type |-> "code", execution_count |-> <<>>, outputs |-> <<>>, metadata |-> {<<"collapsed", FALSE>>}, source |-> <<"text at line 47">>],
        [cell_type |-> "markdown", metadata |-> {}, source |-> <<"text at line 54">>],
        [cell_type |-> "code", execution_count |-> <<>>, outputs |-> <<>>, metadata |-> {<<"collapsed", FALSE>>}, source |-> <<"text at line 65">>],
        [cell_type |-> "markdown", metadata |-> {}, source |-> <<"text at line 72">>],
        [cell_type |-> "code", execution_count |-> <<>>, outputs |-> <<>>, metadata |-> {<<"collapsed", FALSE>>}, source |-> <<"text at line 83">>],
        [cell_type |-> "markdown", metadata |-> {}, source |-> <<"text at line 90">>],
        [cell_type |-> "code", execution_count |-> <<>>, outputs |-> <<>>, metadata |-> {<<"collapsed", FALSE>>}, source |-> <<"text at line 101">>] >>,
   kernelspec |-> [display_name |-> "Python 3", name |-> "python3", language |-> "python"],
   language_info |-> [name |-> "python", version |-> "3.6.1", pygments_lexer |-> "ipython3",
                      codemirror_mode |-> [name |-> "ipython", version |-> 3]],
   brackets |->
     << 1, 1, 1, 0, 0, 1, 0, -1, 0, 1, 0, -1, -1, 1, 0, 0, 1, 0, -1, -1, 1, 0, 0, 1, 0, -1, 0, 1, 0, -1,
        -1, 1, 0, 0, 1, 0, -1, -1, 1, 0, 0, 1, 0, -1, 0, 1, 0, -1, -1, 1, 0, 0, 1, 0, -1, -1, 1, 0, 0, 1,
        0, -1, 0, 1, 0, -1, -1, 1, 0, 0, 1, 0, -1, -1, 1, 0, 0, 1, 0, -1, 0, 1, 0, -1, -1, 1, 0, 0, 1, 0,
        -1, -1, 1, 0, 0, 1, 0, -1, 0, 1, 0, -1, -1, -1, 1, 1, 0, 0, 0, -1, 1, 1, 0, 0, -1, 0, 0, 0, 0, 0,
        0, -1, -1, 0, 0, -1 >>]

\* src/dev/_downloads/plot_svm_regression.ipynb, lines 1-126
Notebook5 ==
  [file |-> "src/dev/_downloads/plot_svm_regression.ipynb", first_line |-> 1, last_line |-> 126,
   nbformat |-> 4, nbformat_minor |-> 0,
   cells |->
     << [cell_type |-> "code", execution_count |-> <<>>, outputs |-> <<>>, metadata |-> {<<"collapsed", FALSE>>}, source |-> <<"%matplotlib inline">>],
        [cell_type |-> "markdown", metadata |-> {}, source |-> <<"text at line 18">>],
        [cell_type |-> "code", execution_count |-> <<>>, outputs |-> <<>>, metadata |-> {<<"collapsed", FALSE>>}, source |-> <<"text at line 29">>],
        [cell_type |-> "markdown", metadata |-> {}, source |-> <<"text at line 36">>],
        [cell_type |-> "code", execution_count |-> <<>>, outputs |-> <<>>, metadata |-> {<<"collapsed", FALSE>>}, source |-> <<"text at line 47">>],
        [cell_type |-> "markdown", metadata |-> {}, source |-> <<"text at line 54">>],
        [cell_type |-> "code", execution_count |-> <<>>, outputs |-> <<>>, metadata |-> {<<"collapsed", FALSE>>}, source |-> <<"text at line 65">>],
        [cell_type |-> "markdown", metadata |-> {}, source |-> <<"text at line 72">>],
        [cell_type |-> "code", execution_count |-> <<>>, outputs |-> <<>>, metadata |-> {<<"collapsed", FALSE>>}, source |-> <<"text at line 83">>],
        [cell_type |-> "markdown", metadata |-> {}, source |-> <<"text at line 90">>],
        [cell_type |-> "code", execution_count |-> <<>>, outputs |-> <<>>, metadata |-> {<<"collapsed", FALSE>>}, source |-> <<"text at line 101">>] >>,
   kernelspec |-> [display_name |-> "Python 3", name |-> "python3", language |-> "python"],
   language_info |-> [name |-> "python", version |-> "3.6.1", pygments_lexer |-> "ipython3",
                      codemirror_mode |-> [name |-> "ipython", version |-> 3]],
   brackets |->
     << 1, 1, 1, 0, 0, 1, 0, -1, 0, 1, 0, -1, -1, 1, 0, 0, 1, 0, -1, -1, 1, 0, 0, 1, 0, -1, 0, 1, 0, -1,
        -1, 1, 0, 0, 1, 0, -1, -1, 1, 0, 0, 1, 0, -1, 0, 1, 0, -1, -1, 1, 0, 0, 1, 0, -1, -1, 1, 0, 0, 1,
        0, -1, 0, 1, 0, -1, -1, 1, 0, 0, 1, 0, -1, -1, 1, 0, 0, 1, 0, -1, 0, 1, 0, -1, -1, 1, 0, 0, 1, 0,
        -1, -1, 1, 0, 0, 1, 0, -1, 0, 1, 0, -1, -1, -1, 1, 1, 0, 0, 0, -1, 1, 1, 0, 0, -1, 0, 0, 0, 0, 0,
        0, -1, -1, 0, 0, -1 >>]

\* src/dev/_downloads/plot_svm_regression.ipynb, lines 127-180
Notebook6 ==
  [file |-> "src/dev/_downloads/plot_svm_regression.ipynb", first_line |-> 127, last_line |-> 180,
   nbformat |-> 4, nbformat_minor |-> 0,
   cells |->
     << [cell_type |-> "code", execution_count |-> <<>>, outputs |-> <<>>, metadata |-> {<<"collapsed", FALSE>>}, source |-> <<"%matplotlib inline">>],
        [cell_type |-> "markdown", metadata |-> {}, source |-> <<"text at line 144">>],
        [cell_type |-> "code", execution_count |-> <<>>, outputs |-> <<>>, metadata |-> {<<"collapsed", FALSE>>}, source |-> <<"text at line 155">>] >>,
   kernelspec |-> [display_name |-> "Python 3", name |-> "python3", language |-> "python"],
   language_info |-> [name |-> "python", version |-> "3.6.1", pygments_lexer |-> "ipython3",
                      codemirror_mode |-> [name |-> "ipython", version |-> 3]],
   brackets |->
     << 1, 1, 1, 0, 0, 1, 0, -1, 0, 1, 0, -1, -1, 1, 0, 0, 1, 0, -1, -1, 1, 0, 0, 1, 0, -1, 0, 1, 0, -1,
        -1, -1, 1, 1, 0, 0, 0, -1, 1, 1, 0, 0, -1, 0, 0, 0, 0, 0, 0, -1, -1, 0, 0, -1 >>]

\* src/unnamed/part_001, lines 1-54
Notebook7 ==
  [file |-> "src/unnamed/part_001", first_line |-> 1, last_line |-> 54,
   nbformat |-> 4, nbformat_minor |-> 0,
   cells |->
     << [cell_type |-> "code", execution_count |-> <<>>, outputs |-> <<>>, metadata |-> {<<"collapsed", FALSE>>}, source |-> <<"%matplotlib inline">>],
        [cell_type |-> "markdown", metadata |-> {}, source |-> <<"text at line 18">>],
        [cell_type |-> "code", execution_count |-> <<>>, outputs |-> <<>>, metadata |-> {<<"collapsed", FALSE>>}, source |-> <<"text at line 27">>] >>,
   kernelspec |-> [display_name |-> "Python 2", name |-> "python2", language |-> "python"],
   language_info |-> [name |-> "python", version |-> "2.7.13", pygments_lexer |-> "ipython2",
                      codemirror_mode |-> [name |-> "ipython", version |-> 2]],
   brackets |->
     << 1, 0, 0, 1, 1, 0, 0, 1, 0, -1, 0, 1, 0, -1, -1, 1, 1, 0, -1, 0, 0, -1, 1, 0, 0, 1, 0, -1, 0, 1,
        0, -1, -1, -1, 1, 1, 0, 0, 0, -1, 1, 0, 0, 0, 0, 0, 0, 1, 0, 0, -1, -1, -1, -1 >>]

\* src/unnamed/part_002, lines 1-54
Notebook8 ==
  [file |-> "src/unnamed/part_002", first_line |-> 1, last_line |-> 54,
   nbformat |-> 4, nbformat_minor |-> 0,
   cells |->
     << [cell_type |-> "code", execution_count |-> <<>>, outputs |-> <<>>, metadata |-> {<<"collapsed", FALSE>>}, source |-> <<"%matplotlib inline">>],
        [cell_type |-> "markdown", metadata |-> {}, source |-> <<"text at line 18">>],
        [cell_type |-> "code", execution_count |-> <<>>, outputs |-> <<>>, metadata |-> {<<"collapsed", FALSE>>}, source |-> <<"text at line 29">>] >>,
   kernelspec |-> [display_name |-> "Python 3", name |-> "python3", language |-> "python"],
   language_info |-> [name |-> "python", version |-> "3.6.1", pygments_lexer |-> "ipython3",
                      codemirror_mode |-> [name |-> "ipython", version |-> 3]],
   brackets |->
     << 1, 1, 1, 0, 0, 1, 0, -1, 0, 1, 0, -1, -1, 1, 0, 0, 1, 0, -1, -1, 1, 0, 0, 1, 0, -1, 0, 1, 0, -1,
        -1, -1, 1, 1, 0, 0, 0, -1, 1, 1, 0, 0, -1, 0, 0, 0, 0, 0, 0, -1, -1, 0, 0, -1 >>]

\* src/unnamed/part_003, lines 1-54
Notebook9 ==
  [file |-> "src/unnamed/part_003", first_line |-> 1, last_line |-> 54,
   nbformat |-> 4, nbformat_minor |-> 0,
   cells |->
     << [cell_type |-> "code", execution_count |-> <<>>, outputs |-> <<>>, metadata |-> {<<"collapsed", FALSE>>}, source |-> <<"%matplotlib inline">>],
        [cell_type |-> "markdown", metadata |-> {}, source |-> <<"text at line 18">>],
        [cell_type |-> "code", execution_count |-> <<>>, outputs |-> <<>>, metadata |-> {<<"collapsed", FALSE>>}, source |-> <<"text at line 29">>] >>,
   kernelspec |-> [display_name |-> "Python 3", name |-> "python3", language |-> "python"],
   language_info |-> [name |-> "python", version |-> "3.6.1", pygments_lexer |-> "ipython3",
                      codemirror_mode |-> [name |-> "ipython", version |-> 3]],
   brackets |->
     << 1, 1, 1, 0, 0, 1, 0, -1, 0, 1, 0, -1, -1, 1, 0, 0, 1, 0, -1, -1, 1, 0, 0, 1, 0, -1, 0, 1, 0, -1,
        -1, -1, 1, 1, 0, 0, 0, -1, 1, 1, 0, 0, -1, 0, 0, 0, 0, 0, 0, -1, -1, 0, 0, -1 >>]

\* An exported notebook with one code cell run before it was saved.
NotebooksOneCellExecuted ==
  << [Notebook1 EXCEPT !.cells[3].execution_count = <<1>>, !.cells[3].outputs = <<"output">>],
     Notebook2, Notebook3, Notebook4, Notebook5, Notebook6, Notebook7, Notebook8, Notebook9 >>

Notebooks == << Notebook1, Notebook2, Notebook3, Notebook4, Notebook5, Notebook6, Notebook7, Notebook8, Notebook9 >>

\* The sum of deltas[lo..hi], by halves.
RECURSIVE SumRange(_, _, _)
SumRange(deltas, lo, hi) ==
  IF lo > hi THEN 0
  ELSE IF lo = hi THEN deltas[lo]
  ELSE SumRange(deltas, lo, (lo + hi) \div 2) + SumRange(deltas, ((lo + hi) \div 2) + 1, hi)

\* The depth of nesting after line n of a document.
DepthAfter(deltas, n) == SumRange(deltas, 1, n)

\* The lines hold one JSON value and nothing after it: the nesting opened on
\* the first line is closed on the last line and not before.
SingleDocument(deltas) ==
  /\ Len(deltas) > 0
  /\ DepthAfter(deltas, Len(deltas)) = 0
  /\ \A i \in 1..(Len(deltas) - 1) : DepthAfter(deltas, i) >= 1

InitNb ==
  /\ nb_done = {} /\ nb_cur = 0 /\ nb_head = <<>> /\ nb_cells = <<>> /\ nb_meta = <<>>
  /\ IdleScripts /\ IdleSil /\ IdlePg

\* A notebook not read yet is opened, in no particular order.
OpenNotebook ==
  /\ nb_cur = 0
  /\ \E i \in DOMAIN Notebooks \ nb_done :
       /\ nb_cur' = i
       /\ nb_head' = [nbformat |-> Notebooks[i].nbformat,
                      nbformat_minor |-> Notebooks[i].nbformat_minor,
                      single_document |-> SingleDocument(Notebooks[i].brackets)]
  /\ nb_cells' = <<>>
  /\ nb_meta' = <<>>
  /\ UNCHANGED <<nb_done, scriptVars, silVars, pgVars>>

\* The next cell of "cells".
ReadCell ==
  /\ nb_cur # 0 /\ nb_meta = <<>>
  /\ Len(nb_cells) < Len(Notebooks[nb_cur].cells)
  /\ nb_cells' = Append(nb_cells, Notebooks[nb_cur].cells[Len(nb_cells) + 1])
  /\ UNCHANGED <<nb_done, nb_cur, nb_head, nb_meta, scriptVars, silVars, pgVars>>

\* "metadata": kernelspec and language_info.
ReadMetadata ==
  /\ nb_cur # 0 /\ nb_meta = <<>>
  /\ Len(nb_cells) = Len(Notebooks[nb_cur].cells)
  /\ nb_meta' = [kernelspec |-> Notebooks[nb_cur].kernelspec,
                 language_info |-> Notebooks[nb_cur].language_info]
  /\ UNCHANGED <<nb_done, nb_cur, nb_head, nb_cells, scriptVars, silVars, pgVars>>

CloseNotebook ==
  /\ nb_cur # 0 /\ nb_meta # <<>>
  /\ nb_done' = nb_done \cup {nb_cur}
  /\ nb_cur' = 0 /\ nb_head' = <<>> /\ nb_cells' = <<>> /\ nb_meta' = <<>>
  /\ UNCHANGED <<scriptVars, silVars, pgVars>>

NextNb == OpenNotebook \/ ReadCell \/ ReadMetadata \/ CloseNotebook

NbSpec == InitNb /\ [][NextNb]_vars

CodeCellSchema(c) ==
  /\ c.execution_count = <<>>
  /\ c.outputs = <<>>
  /\ c.metadata = {<<"collapsed", FALSE>>}

MarkdownCellSchema(c) == c.metadata = {}

Python2Metadata(m) ==
  /\ m.kernelspec.name = "python2"
  /\ m.language_info.version = "2.7.13"
  /\ m.language_info.pygments_lexer = "ipython2"
  /\ m.language_info.codemirror_mode.version = 2

Python3Metadata(m) ==
  /\ m.kernelspec.name = "python3"
  /\ m.language_info.version = "3.6.1"
  /\ m.language_info.pygments_lexer = "ipython3"
  /\ m.language_info.codemirror_mode.version = 3

Page1 ==
  [file |-> "src/0.15/_sources/auto_examples/cluster/plot_kmeans_silhouette_analysis.txt",
   items |->
     << [kind |-> "label", line |-> 3, text |-> "_example_cluster_plot_kmeans_silhouette_analysis.py"],
        [kind |-> "image", line |-> 43, text |-> "images/plot_kmeans_silhouette_analysis_001.png"],
        [kind |-> "image", line |-> 48, text |-> "images/plot_kmeans_silhouette_analysis_002.png"],
        [kind |-> "image", line |-> 53, text |-> "images/plot_kmeans_silhouette_analysis_003.png"],
        [kind |-> "image", line |-> 58, text |-> "images/plot_kmeans_silhouette_analysis_004.png"],
        [kind |-> "image", line |-> 63, text |-> "images/plot_kmeans_silhouette_analysis_005.png"],
        [kind |-> "download", line |-> 77, text |-> "plot_kmeans_silhouette_analysis.py", target |-> "plot_kmeans_silhouette_analysis.py"],
        [kind |-> "literalinclude", line |-> 79, text |-> "plot_kmeans_silhouette_analysis.py"],
        [kind |-> "seconds", line |-> 82, whole |-> 1, hundredths |-> 62],
        [kind |-> "minutes_seconds", line |-> 83, minutes |-> 0, whole |-> 1, hundredths |-> 62] >>]

\* src/0.15/_sources/auto_examples/decomposition/plot_pca_3d.txt
Page2 ==
  [file |-> "src/0.15/_sources/auto_examples/decomposition/plot_pca_3d.txt",
   items |->
     << [kind |-> "label", line |-> 3, text |-> "_example_decomposition_plot_pca_3d.py"],
        [kind |-> "image", line |-> 22, text |-> "images/plot_pca_3d_001.png"],
        [kind |-> "image", line |-> 27, text |-> "images/plot_pca_3d_002.png"],
        [kind |-> "download", line |-> 33, text |-> "plot_pca_3d.py", target |-> "plot_pca_3d.py"],
        [kind |-> "literalinclude", line |-> 35, text |-> "plot_pca_3d.py"],
        [kind |-> "seconds", line |-> 38, whole |-> 0, hundredths |-> 23],
        [kind |-> "minutes_seconds", line |-> 39, minutes |-> 0, whole |-> 0, hundredths |-> 23] >>]

\* src/0.16/_sources/auto_examples/linear_model/plot_sgd_comparison.txt
Page3 ==
  [file |-> "src/0.16/_sources/auto_examples/linear_model/plot_sgd_comparison.txt",
   items |->
     << [kind |-> "label", line |-> 3, text |-> "_example_linear_model_plot_sgd_comparison.py"],
        [kind |-> "image", line |-> 16, text |-> "images/plot_sgd_comparison_001.png"],
        [kind |-> "download", line |-> 22, text |-> "plot_sgd_comparison.py", target |-> "plot_sgd_comparison.py"],
        [kind |-> "literalinclude", line |-> 24, text |-> "plot_sgd_comparison.py"],
        [kind |-> "seconds", line |-> 27, whole |-> 4, hundredths |-> 75],
        [kind |-> "minutes_seconds", line |-> 28, minutes |-> 0, whole |-> 4, hundredths |-> 75] >>]

\* src/0.17/_sources/auto_examples/linear_model/plot_ard.txt
Page4 ==
  [file |-> "src/0.17/_sources/auto_examples/linear_model/plot_ard.txt",
   items |->
     << [kind |-> "label", line |-> 3, text |-> "_example_linear_model_plot_ard.py"],
        [kind |-> "image", line |-> 30, text |-> "images/plot_ard_001.png"],
        [kind |-> "image", line |-> 35, text |-> "images/plot_ard_002.png"],
        [kind |-> "image", line |-> 40, text |-> "images/plot_ard_003.png"],
        [kind |-> "download", line |-> 46, text |-> "plot_ard.py", target |-> "plot_ard.py"],
        [kind |-> "literalinclude", line |-> 48, text |-> "plot_ard.py"],
        [kind |-> "seconds", line |-> 51, whole |-> 0, hundredths |-> 62],
        [kind |-> "minutes_seconds", line |-> 52, minutes |-> 0, whole |-> 0, hundredths |-> 62] >>]

\* src/unnamed/part_000
Page5 ==
  [file |-> "src/unnamed/part_000",
   items |->
     << [kind |-> "label", line |-> 2, text |-> "_example_cross_decomposition_plot_compare_cross_decomposition.py"],
        [kind |-> "image", line |-> 26, text |-> "images/plot_compare_cross_decomposition_001.png"],
        [kind |-> "download", line |-> 78, text |-> "plot_compare_cross_decomposition.py", target |-> "plot_compare_cross_decomposition.py"],
        [kind |-> "literalinclude", line |-> 80, text |-> "plot_compare_cross_decomposition.py"],
        [kind |-> "seconds", line |-> 83, whole |-> 0, hundredths |-> 28],
        [kind |-> "minutes_seconds", line |-> 84, minutes |-> 0, whole |-> 0, hundredths |-> 28] >>]

\* The pages with the second image of plot_pca_3d numbered 003.
PagesImageSkipped ==
  <<Page1, [Page2 EXCEPT !.items[3].text = "images/plot_pca_3d_003.png"],
    Page3, Page4, Page5>>
Pages == <<Page1, Page2, Page3, Page4, Page5>>

InitPg ==
  /\ pg_done = {} /\ pg_cur = 0 /\ pg_items = <<>>
  /\ IdleScripts /\ IdleSil /\ IdleNb

\* A page not read yet is opened, in no particular order.
OpenPage ==
  /\ pg_cur = 0
  /\ \E i \in DOMAIN Pages \ pg_done : pg_cur' = i
  /\ pg_items' = <<>>
  /\ UNCHANGED <<pg_done, scriptVars, silVars, nbVars>>

\* The next directive of the open page is read.
ReadItem ==
  /\ pg_cur # 0 /\ Len(pg_items) < Len(Pages[pg_cur].items)
  /\ pg_items' = Append(pg_items, Pages[pg_cur].items[Len(pg_items) + 1])
  /\ UNCHANGED <<pg_done, pg_cur, scriptVars, silVars, nbVars>>

PageRead == pg_cur # 0 /\ Len(pg_items) = Len(Pages[pg_cur].items)

ClosePage ==
  /\ PageRead
  /\ pg_done' = pg_done \cup {pg_cur}
  /\ pg_cur' = 0 /\ pg_items' = <<>>
  /\ UNCHANGED <<scriptVars, silVars, nbVars>>

NextPg == OpenPage \/ ReadItem \/ ClosePage

PgSpec == InitPg /\ [][NextPg]_vars

\* The gallery sections and the scripts the pages belong to.
GalleryDirs == {"cluster", "cross_decomposition", "decomposition", "linear_model"}
ScriptNames ==
  {"plot_ard", "plot_compare_cross_decomposition",
   "plot_kmeans_silhouette_analysis", "plot_pca_3d", "plot_sgd_comparison"}

Digit(n) == <<"0", "1", "2", "3", "4", "5", "6", "7", "8", "9">>[n + 1]

\* NNN: a number below 1000 in three digits.
Pad3(n) == Digit(n \div 100) \o Digit((n \div 10) % 10) \o Digit(n % 10)

ItemsOfKind(items, kind) == SelectSeq(items, LAMBDA it : it.kind = kind)

\* A running time in hundredths of a second.
Hundredths(minutes, whole, hundredths) == (minutes * 60 + whole) * 100 + hundredths

\* The directives read so far name the script name of the section dir.
NamesScript(items, dir, name) ==
  LET images == ItemsOfKind(items, "image") IN
  /\ \A it \in Range(ItemsOfKind(items, "label")) :
       it.text = "_example_" \o dir \o "_" \o name \o ".py"
  /\ \A it \in Range(ItemsOfKind(items, "download")) :
       it.text = name \o ".py" /\ it.target = name \o ".py"
  /\ \A it \in Range(ItemsOfKind(items, "literalinclude")) :
       it.text = name \o ".py"
  /\ \A k \in DOMAIN images :
       images[k].text = "images/" \o name \o "_" \o Pad3(k) \o ".png"

SameRunningTime(items) ==
  \A s \in Range(ItemsOfKind(items, "seconds")) :
    \A m \in Range(ItemsOfKind(items, "minutes_seconds")) :
      Hundredths(0, s.whole, s.hundredths) = Hundredths(m.minutes, m.whole, m.hundredths)

\* A page read to its end has each part of the format.
CompletePage(items) ==
  /\ Len(ItemsOfKind(items, "label")) = 1
  /\ Len(ItemsOfKind(items, "image")) >= 1
  /\ Len(ItemsOfKind(items, "download")) = 1
  /\ Len(ItemsOfKind(items, "literalinclude")) = 1
  /\ Len(ItemsOfKind(items, "seconds")) = 1
  /\ Len(ItemsOfKind(items, "minutes_seconds")) = 1

\* C13: in every example page of the 0.15 - 0.17 format the script name is
\* the same in the reference label (_example_<dir>_<name>.py), in the
\* download link and in the literalinclude directive; the images are named
\* <name>_NNN.png and numbered consecutively from 001; and the total running
\* time is stated twice with the same value, in seconds and in minutes plus
\* seconds.
C13_PageFormat ==
  pg_cur # 0 =>
    /\ \E dir \in GalleryDirs : \E name \in ScriptNames :
         NamesScript(pg_items, dir, name)
    /\ SameRunningTime(pg_items)
    /\ PageRead => CompletePage(pg_items)

\* Every page has been read; the last one read to its end has five images.
C13_Witness ==
  /\ pg_done \cup {pg_cur} = DOMAIN Pages
  /\ PageRead
  /\ Len(ItemsOfKind(pg_items, "image")) = 5

====
